---- MODULE Spec2Model ----
(***************************************************************************)
(* Model of startr (src/src/main.rs): a list of batches read from a YAML   *)
(* configuration is executed in order.  A Single batch is run inline on    *)
(* the main thread; a Parallel batch is handed to rayon's par_iter, whose  *)
(* fork-join pool runs the closure once per command.                       *)
(***************************************************************************)
EXTENDS Integers, Sequences, FiniteSets, TLC

(* ------------------------------ bounds -------------------------------- *)
\* longest list of batches in a configuration
MaxBatches == 2
\* most commands in a configuration, over all its batches
MaxCmds == 3
\* largest Parallel group
MaxGroup == 3
\* largest rayon pool (available parallelism of the host)
MaxThreads == 2
\* most commands in a configuration that draws working_directory
DirCmds == 2

VARIABLES
    commands,    \* Vec<Command>: the parsed configuration (main.rs:111)
    cwdOk,       \* whether std::env::current_dir() succeeds on this host
    numThreads,  \* size of rayon's global pool
    i,           \* number of batches the for loop has taken (main.rs:113)
    mainPc,      \* position of the main thread
    exit,        \* how the process ended: "running", "ok", "err", "panic"
    pc,          \* pc[b][k]: position of the code handling command k of batch b
    result,      \* result[b][k]: the ExecutionResult run() returned
    proc,        \* proc[b][k]: the child process of command k of batch b
    out,         \* the lines the program's println! calls wrote, in order
    pending,     \* rayon jobs pushed by a join and not yet taken
    worker,      \* worker[w]: the leaf range worker w is folding over
    panicked     \* a closure of the current for_each has panicked

vars == <<commands, cwdOk, numThreads, i, mainPc, exit, pc, result, proc, out,
          pending, worker, panicked>>

Max(a, b) == IF a >= b THEN a ELSE b

(* ----------------------------- data model ----------------------------- *)
\* enum CommandType: Command(String) | Execution { ... }
\* (dirs: the values of working_directory that are drawn)
CommandType(name, dirs) ==
    { [kind |-> "Command", cmd |-> name] }
    \cup
    { [kind |-> "Execution", command |-> name, working_directory |-> wd,
       args |-> <<>>, spawn_only |-> so] :
         wd \in dirs, so \in BOOLEAN }

\* the text of command k of batch b (distinct per position)
NameOf(b, k) == 10 * b + k

\* enum Command: Single(CommandType) | Parallel(Vec<CommandType>)
Single(b, dirs) ==
    { [type |-> "Single", cmds |-> <<c>>] : c \in CommandType(NameOf(b, 1), dirs) }

RECURSIVE Groups(_, _, _)
Groups(b, n, dirs) ==
    IF n = 0 THEN { <<>> }
    ELSE { Append(cs, c) : cs \in Groups(b, n - 1, dirs),
                           c \in CommandType(NameOf(b, n), dirs) }

Parallel(b, maxGroup, dirs) ==
    { [type |-> "Parallel", cmds |-> cs] :
        cs \in UNION { Groups(b, n, dirs) : n \in 0..maxGroup } }

\* every Vec<Command> of at most nb batches (numbered from b) and at most
\* budget commands
RECURSIVE Configs(_, _, _, _)
Configs(b, nb, budget, dirs) ==
    IF nb = 0 \/ budget = 0 THEN { <<>> }
    ELSE { <<>> } \cup
         UNION { { <<x>> \o t : t \in Configs(b + 1, nb - 1, budget - Len(x.cmds), dirs) } :
                 x \in Single(b, dirs) \cup
                       Parallel(b, IF budget < MaxGroup THEN budget ELSE MaxGroup, dirs) }

\* impl fmt::Display for CommandType: spawn_only is not part of the text
Display(c) ==
    IF c.kind = "Command"
    THEN [text |-> c.cmd]
    ELSE [text |-> c.command, in |-> c.working_directory, with |-> c.args]

\* String::from_utf8_lossy: invalid sequences become U+FFFD
FromUtf8Lossy(bytes) ==
    [j \in DOMAIN bytes |-> IF bytes[j] = "invalid" THEN "U+FFFD" ELSE bytes[j]]

\* what a started process may write to its standard output
Outputs == { <<>>, <<"X", "\n">> }

NoResult == [child |-> "None", wait |-> FALSE]
NoProc == [state |-> "none", stdout |-> "none", produced |-> <<>>]

(* ------------------------------- rayon -------------------------------- *)
\* bridge_producer_consumer's helper with LengthSplitter (min length 1):
\* the job over items lo+1..hi taken by worker w is split in halves, the
\* right halves pushed for stealing, until the splitter refuses; what is
\* left is the leaf that w folds over sequentially.
\* a bridge that never splits: the whole job is one leaf
SplitJobWhole(lo, hi, splits, migrated, w) ==
    [leaf |-> [lo |-> lo, hi |-> hi], jobs |-> {}]

RECURSIVE SplitJob(_, _, _, _, _)
SplitJob(lo, hi, splits, migrated, w) ==
    LET len == hi - lo
        s2 == IF migrated THEN Max(numThreads, splits \div 2) ELSE splits \div 2
        mid == lo + (len \div 2)
    IN  IF len \div 2 >= 1 /\ (migrated \/ splits > 0)
        THEN LET rest == SplitJob(lo, mid, s2, FALSE, w)
             IN  [leaf |-> rest.leaf,
                  jobs |-> rest.jobs \cup
                           { [lo |-> mid, hi |-> hi, splits |-> s2, owner |-> w] }]
        ELSE [leaf |-> [lo |-> lo, hi |-> hi], jobs |-> {}]

Idle == [lo |-> 0, hi |-> 0]
Workers == 1..numThreads
Busy(w) == worker[w].lo < worker[w].hi
\* the command worker w is handling
Cur(w) == worker[w].lo + 1

(* ------------------------------ dispatch ------------------------------ *)
\* run with the wait decision of the shell arm in both arms
runAlwaysWait(command, spawned) ==
    IF command.kind = "Command"
    THEN [child |-> spawned, wait |-> TRUE]
    ELSE IF ~cwdOk
         THEN [child |-> "panic", wait |-> FALSE]
         ELSE [child |-> spawned, wait |-> TRUE]

\* run that decides to wait only for a process that started
runWaitIfStarted(command, spawned) ==
    IF command.kind = "Command"
    THEN [child |-> spawned, wait |-> spawned = "Ok"]
    ELSE IF ~cwdOk
         THEN [child |-> "panic", wait |-> FALSE]
         ELSE [child |-> spawned, wait |-> spawned = "Ok" /\ ~command.spawn_only]

\* fn run(command: &CommandType) -> ExecutionResult, given what the OS
\* answers to spawn(); "panic" when current_dir().unwrap() panics.
\* map_or evaluates its default argument before looking at the Option.
run(command, spawned) ==
    IF command.kind = "Command"
    THEN [child |-> spawned, wait |-> TRUE]
    ELSE IF ~cwdOk
         THEN [child |-> "panic", wait |-> FALSE]
         ELSE [child |-> spawned, wait |-> ~command.spawn_only]

\* Command::spawn() leaves stdin/stdout/stderr inherited: no pipe is set up
Spawn(spawned) ==
    IF spawned = "Ok"
    THEN [state |-> "running", stdout |-> "inherit", produced |-> <<>>]
    ELSE NoProc

\* Child::wait_with_output().stdout: the bytes read from the child's stdout
\* pipe; a child without a pipe yields none
WaitWithOutput(p) == IF p.stdout = "piped" THEN p.produced ELSE <<>>

\* the block printed after the label (main.rs:118-126 and 132-142)
Captured(p) == [captured |-> FromUtf8Lossy(WaitWithOutput(p))]
Spawned(c) == [spawned |-> Display(c)]

Line(b, k, kind, text) == [by |-> <<b, k>>, kind |-> kind, text |-> text]

(* ------------------------------- states ------------------------------- *)
InitWith(configs) ==
    /\ commands \in configs
    /\ cwdOk \in BOOLEAN
    /\ numThreads \in 1..MaxThreads
    /\ i = 0
    /\ mainPc = "next"
    /\ exit = "running"
    /\ pc = [b \in 1..Len(commands) |-> [k \in 1..Len(commands[b].cmds) |-> "idle"]]
    /\ result = [b \in 1..Len(commands) |-> [k \in 1..Len(commands[b].cmds) |-> NoResult]]
    /\ proc = [b \in 1..Len(commands) |-> [k \in 1..Len(commands[b].cmds) |-> NoProc]]
    /\ out = <<>>
    /\ pending = {}
    /\ worker = [w \in 1..numThreads |-> Idle]
    /\ panicked = FALSE

\* configurations that leave working_directory out
Init == InitWith(Configs(1, MaxBatches, MaxCmds, {"None"}))

(* --------------------------- the Single arm --------------------------- *)
\* main.rs:113-116: the loop takes a Single batch and prints its label
SingleLabel ==
    /\ mainPc = "next"
    /\ i < Len(commands)
    /\ commands[i + 1].type = "Single"
    /\ i' = i + 1
    /\ mainPc' = "single"
    /\ pc' = [pc EXCEPT ![i + 1][1] = "labelled"]
    /\ out' = Append(out, Line(i + 1, 1, "label", Display(commands[i + 1].cmds[1])))
    /\ UNCHANGED <<commands, cwdOk, numThreads, exit, result, proc, pending,
                   worker, panicked>>

\* main.rs:117: let result = run(&cmd)
SingleRun ==
    /\ mainPc = "single"
    /\ pc[i][1] = "labelled"
    /\ \E spawned \in {"Ok", "Err"} :
         LET r == run(commands[i].cmds[1], spawned)
         IN  IF r.child = "panic"
             THEN /\ pc' = [pc EXCEPT ![i][1] = "failed"]
                  /\ mainPc' = "done"
                  /\ exit' = "panic"
                  /\ UNCHANGED <<result, proc>>
             ELSE /\ pc' = [pc EXCEPT ![i][1] = "ran"]
                  /\ result' = [result EXCEPT ![i][1] = r]
                  /\ proc' = [proc EXCEPT ![i][1] = Spawn(r.child)]
                  /\ UNCHANGED <<mainPc, exit>>
    /\ UNCHANGED <<commands, cwdOk, numThreads, i, out, pending, worker, panicked>>

\* main.rs:118-126: print the captured output or the spawned marker;
\* the two ? return the error from main
SingleReport ==
    /\ mainPc = "single"
    /\ pc[i][1] = "ran"
    /\ IF ~result[i][1].wait
       THEN /\ out' = Append(out, Line(i, 1, "body", Spawned(commands[i].cmds[1])))
            /\ pc' = [pc EXCEPT ![i][1] = "done"]
            /\ mainPc' = "next"
            /\ UNCHANGED exit
       ELSE IF result[i][1].child = "Err"
       THEN /\ pc' = [pc EXCEPT ![i][1] = "failed"]
            /\ mainPc' = "done"
            /\ exit' = "err"
            /\ UNCHANGED out
       ELSE \/ /\ proc[i][1].state = "exited"
               /\ out' = Append(out, Line(i, 1, "body", Captured(proc[i][1])))
               /\ pc' = [pc EXCEPT ![i][1] = "done"]
               /\ mainPc' = "next"
               /\ UNCHANGED exit
            \/ /\ pc' = [pc EXCEPT ![i][1] = "failed"]
               /\ mainPc' = "done"
               /\ exit' = "err"
               /\ UNCHANGED out
    /\ UNCHANGED <<commands, cwdOk, numThreads, i, result, proc, pending, worker,
                   panicked>>

(* -------------------------- the Parallel arm -------------------------- *)
\* a for_each that leaves out the last command of the group
ParallelStartShort ==
    /\ mainPc = "next"
    /\ i < Len(commands)
    /\ commands[i + 1].type = "Parallel"
    /\ i' = i + 1
    /\ mainPc' = "parallel"
    /\ pending' = { [lo |-> 0, hi |-> Max(0, Len(commands[i + 1].cmds) - 1),
                     splits |-> numThreads, owner |-> 0] }
    /\ panicked' = FALSE
    /\ UNCHANGED <<commands, cwdOk, numThreads, exit, pc, result, proc, out, worker>>

\* main.rs:128-129: cmds.par_iter().for_each(..) injects the root job into
\* the pool and blocks the main thread
ParallelStart ==
    /\ mainPc = "next"
    /\ i < Len(commands)
    /\ commands[i + 1].type = "Parallel"
    /\ i' = i + 1
    /\ mainPc' = "parallel"
    /\ pending' = { [lo |-> 0, hi |-> Len(commands[i + 1].cmds),
                     splits |-> numThreads, owner |-> 0] }
    /\ panicked' = FALSE
    /\ UNCHANGED <<commands, cwdOk, numThreads, exit, pc, result, proc, out, worker>>

\* a pool thread without work pops or steals a job and splits it
WorkerTake(w) ==
    /\ mainPc = "parallel"
    /\ ~Busy(w)
    /\ \E j \in pending :
         LET s == SplitJob(j.lo, j.hi, j.splits, j.owner # 0 /\ j.owner # w, w)
         IN  /\ pending' = (pending \ {j}) \cup s.jobs
             /\ worker' = [worker EXCEPT ![w] = s.leaf]
    /\ UNCHANGED <<commands, cwdOk, numThreads, i, mainPc, exit, pc, result, proc,
                   out, panicked>>

\* main.rs:130: println!("{}", cmd)
TaskLabel(w) ==
    /\ mainPc = "parallel"
    /\ Busy(w)
    /\ pc[i][Cur(w)] = "idle"
    /\ pc' = [pc EXCEPT ![i][Cur(w)] = "labelled"]
    /\ out' = Append(out, Line(i, Cur(w), "label", Display(commands[i].cmds[Cur(w)])))
    /\ UNCHANGED <<commands, cwdOk, numThreads, i, mainPc, exit, result, proc,
                   pending, worker, panicked>>

\* the closure unwinds: the rest of the leaf is never folded
Unwind(w) ==
    /\ pc' = [pc EXCEPT ![i][Cur(w)] = "failed"]
    /\ worker' = [worker EXCEPT ![w] = Idle]
    /\ panicked' = TRUE

\* main.rs:131: let result = run(cmd)
TaskRun(w) ==
    /\ mainPc = "parallel"
    /\ Busy(w)
    /\ pc[i][Cur(w)] = "labelled"
    /\ \E spawned \in {"Ok", "Err"} :
         LET r == run(commands[i].cmds[Cur(w)], spawned)
         IN  IF r.child = "panic"
             THEN /\ Unwind(w)
                  /\ UNCHANGED <<result, proc>>
             ELSE /\ pc' = [pc EXCEPT ![i][Cur(w)] = "ran"]
                  /\ result' = [result EXCEPT ![i][Cur(w)] = r]
                  /\ proc' = [proc EXCEPT ![i][Cur(w)] = Spawn(r.child)]
                  /\ UNCHANGED <<worker, panicked>>
    /\ UNCHANGED <<commands, cwdOk, numThreads, i, mainPc, exit, out, pending>>

\* the closure returns: the fold moves to the next item of the leaf
Advance(w) ==
    /\ pc' = [pc EXCEPT ![i][Cur(w)] = "done"]
    /\ worker' = [worker EXCEPT ![w] =
                    IF worker[w].lo + 1 = worker[w].hi
                    THEN Idle
                    ELSE [lo |-> worker[w].lo + 1, hi |-> worker[w].hi]]
    /\ UNCHANGED panicked

\* main.rs:132-142: print the captured output or the spawned marker;
\* the two unwrap() panic inside the closure
TaskReport(w) ==
    /\ mainPc = "parallel"
    /\ Busy(w)
    /\ pc[i][Cur(w)] = "ran"
    /\ IF ~result[i][Cur(w)].wait
       THEN /\ out' = Append(out, Line(i, Cur(w), "body",
                                       Spawned(commands[i].cmds[Cur(w)])))
            /\ Advance(w)
       ELSE IF result[i][Cur(w)].child = "Err"
       THEN /\ Unwind(w)
            /\ UNCHANGED out
       ELSE \/ /\ proc[i][Cur(w)].state = "exited"
               /\ out' = Append(out, Line(i, Cur(w), "body", Captured(proc[i][Cur(w)])))
               /\ Advance(w)
            \/ /\ Unwind(w)
               /\ UNCHANGED out
    /\ UNCHANGED <<commands, cwdOk, numThreads, i, mainPc, exit, result, proc,
                   pending>>

\* a join that looks at the job queue only, not at the threads still folding
GroupJoinedEarly == pending = {}

\* every job of the for_each has run: the call returns, or resumes the
\* panic of a closure on the main thread
GroupJoined == pending = {} /\ \A w \in Workers : ~Busy(w)

ParallelJoin ==
    /\ mainPc = "parallel"
    /\ GroupJoined
    /\ IF panicked
       THEN mainPc' = "done" /\ exit' = "panic"
       ELSE mainPc' = "next" /\ UNCHANGED exit
    /\ UNCHANGED <<commands, cwdOk, numThreads, i, pc, result, proc, out, pending,
                   worker, panicked>>

\* main.rs:148: Ok(())
Finish ==
    /\ mainPc = "next"
    /\ i = Len(commands)
    /\ mainPc' = "done"
    /\ exit' = "ok"
    /\ UNCHANGED <<commands, cwdOk, numThreads, i, pc, result, proc, out, pending,
                   worker, panicked>>

(* ---------------------------- the processes --------------------------- *)
\* a child process writes its output to the stdout it was given and exits
\* (whether or not the program that started it still runs)
ProcExit(b, k) ==
    /\ proc[b][k].state = "running"
    /\ \E o \in Outputs :
         proc' = [proc EXCEPT ![b][k] = [@ EXCEPT !.state = "exited", !.produced = o]]
    /\ UNCHANGED <<commands, cwdOk, numThreads, i, mainPc, exit, pc, result, out,
                   pending, worker, panicked>>

Next ==
    \/ SingleLabel
    \/ SingleRun
    \/ SingleReport
    \/ ParallelStart
    \/ \E w \in Workers : WorkerTake(w)
    \/ \E w \in Workers : TaskLabel(w)
    \/ \E w \in Workers : TaskRun(w)
    \/ \E w \in Workers : TaskReport(w)
    \/ ParallelJoin
    \/ Finish
    \/ \E b \in 1..Len(commands) : \E k \in 1..Len(commands[b].cmds) : ProcExit(b, k)

Spec == Init /\ [][Next]_vars

(* ------------------------------ properties ---------------------------- *)
Batches == 1..Len(commands)
Group(b) == 1..Len(commands[b].cmds)
Cmd(b, k) == commands[b].cmds[k]
\* a ShellLine, or a DirectExecution with spawn_only = false
Awaited(c) == c.kind = "Command" \/ ~c.spawn_only
SpawnOnly(c) == c.kind = "Execution" /\ c.spawn_only
\* the positions of out that command k of batch b wrote
Lines(b, k, kind) ==
    { p \in 1..Len(out) : out[p].by = <<b, k>> /\ out[p].kind = kind }
\* the for loop is past batch b: its arm returned normally
Returned(b) == i > b \/ (i = b /\ mainPc = "next") \/ (i = b /\ exit = "ok")
\* batch b is over, by a return or by a panic or error
Ended(b) == i > b \/ (i = b /\ mainPc \in {"next", "done"})
\* command k of batch b was handled to its end
Handled(b, k) ==
    /\ pc[b][k] = "done"
    /\ Cardinality(Lines(b, k, "body")) = 1
    /\ IF Awaited(Cmd(b, k))
       THEN proc[b][k].state = "exited"
       ELSE \A p \in Lines(b, k, "body") : out[p].text = Spawned(Cmd(b, k))

\* C1: no command of batch b+1 is dispatched (the loop has not even taken
\* batch b+1) before every command of batch b is handled: awaited processes
\* exited and their body printed, spawn_only markers printed.
C1_BatchOrder ==
    \A b \in Batches :
        (i > b \/ \E b2 \in Batches : b2 > b /\ \E k \in Group(b2) : pc[b2][k] # "idle")
        => \A k \in Group(b) : Handled(b, k)

\* C1 witness: a command of the second batch is dispatched after a Parallel
\* group of two with an awaited command, on two threads
C1_Witness ==
    /\ Len(commands) = 2
    /\ commands[1].type = "Parallel"
    /\ Len(commands[1].cmds) = 2
    /\ Awaited(Cmd(1, 1))
    /\ SpawnOnly(Cmd(1, 2))
    /\ numThreads = 2
    /\ \E k \in Group(2) : pc[2][k] = "labelled"

\* C2: when for_each has returned from a Parallel batch of N commands, N
\* closures have completed, each printed one body, and the labels printed
\* for the batch are the labels of the N commands.
C2_ParallelComplete ==
    \A b \in Batches :
        (commands[b].type = "Parallel" /\ Returned(b))
        => /\ Cardinality({ k \in Group(b) : pc[b][k] = "done" }) = Len(commands[b].cmds)
           /\ Cardinality({ p \in 1..Len(out) : out[p].by[1] = b /\ out[p].kind = "body" })
                = Len(commands[b].cmds)
           /\ { out[p].text : p \in { q \in 1..Len(out) :
                                        out[q].by[1] = b /\ out[q].kind = "label" } }
                = { Display(Cmd(b, k)) : k \in Group(b) }

\* C2 witness: a group of three has returned on a pool smaller than the group
C2_Witness ==
    \E b \in Batches :
        /\ commands[b].type = "Parallel"
        /\ Len(commands[b].cmds) = 3
        /\ numThreads < 3
        /\ Returned(b)

\* C3 (as claimed): once a Single command has failed to start, no later
\* batch is taken and no later command is dispatched.
C3_AbortOnStartFailure ==
    \A b \in Batches :
        (commands[b].type = "Single" /\ result[b][1].child = "Err")
        => /\ i <= b
           /\ \A b2 \in Batches : b2 > b => \A k \in Group(b2) : pc[b2][k] = "idle"

\* C4 (as claimed): a run in which a Single command failed to start, or
\* failed while waited on, does not end with the success status.
C4_ExitStatus ==
    (\E b \in Batches :
        /\ commands[b].type = "Single"
        /\ (result[b][1].child = "Err" \/ pc[b][1] = "failed"))
    => exit # "ok"

\* C5: for a DirectExecution with spawn_only = true, Single or in a group,
\* every body printed is the spawned marker of its label, and the code
\* that prints it does not wait for the process.
C5_SpawnOnlyMarker ==
    \A b \in Batches : \A k \in Group(b) :
        SpawnOnly(Cmd(b, k))
        => /\ \A p \in Lines(b, k, "body") : out[p].text = Spawned(Cmd(b, k))
           /\ pc[b][k] \in {"ran", "done"} => ~result[b][k].wait

\* C5 witness: the marker of a spawn_only command is printed and a later
\* command is dispatched while that process is still running
C5_Witness ==
    \E b \in Batches : \E k \in Group(b) :
        /\ SpawnOnly(Cmd(b, k))
        /\ Lines(b, k, "body") # {}
        /\ proc[b][k].state = "running"
        /\ \E b2 \in Batches : b2 > b /\ \E k2 \in Group(b2) : pc[b2][k2] # "idle"

\* C6 (as claimed): the body printed for an awaited command is the standard
\* output its process produced.
C6_BodyIsStdout ==
    \A b \in Batches : \A k \in Group(b) :
        Awaited(Cmd(b, k))
        => \A p \in Lines(b, k, "body") :
             out[p].text = [captured |-> FromUtf8Lossy(proc[b][k].produced)]

\* C7 (as claimed): a command of a Parallel group failing to start, or
\* failing while waited on, does not end the process with a panic.
C7_ParallelFailureNoCrash ==
    ~ /\ exit = "panic"
      /\ commands[i].type = "Parallel"
      /\ \E k \in Group(i) : pc[i][k] = "failed" /\ result[i][k].child \in {"Ok", "Err"}

C9_ReportAtomic ==
    \A p \in 1..Len(out) : \A q \in 1..Len(out) :
        (/\ commands[out[p].by[1]].type = "Parallel"
         /\ out[p].kind = "label"
         /\ out[q].kind = "body"
         /\ out[q].by = out[p].by)
        => q = p + 1

\* C10 (as claimed): a command whose process failed to start is never
\* reported with a body (captured output or spawned marker) as if it ran.
C10_NoSilentFailure ==
    \A b \in Batches : \A k \in Group(b) :
        result[b][k].child = "Err" => Lines(b, k, "body") = {}

\* C11: whenever run has returned an ExecutionResult for a command, its
\* wait field is TRUE for a ShellLine and the negation of spawn_only for a
\* DirectExecution, whether spawn() answered Ok or Err.
C11_WaitDecision ==
    \A b \in Batches : \A k \in Group(b) :
        result[b][k].child \in {"Ok", "Err"}
        => result[b][k].wait =
             (IF Cmd(b, k).kind = "Command" THEN TRUE ELSE ~Cmd(b, k).spawn_only)

\* C11 witness: run has returned for a ShellLine and for a spawn_only
\* DirectExecution whose processes both failed to start
C11_Witness ==
    \E b \in Batches : \E k \in Group(b) : \E k2 \in Group(b) :
        /\ Cmd(b, k).kind = "Command"
        /\ result[b][k].child = "Err"
        /\ SpawnOnly(Cmd(b, k2))
        /\ result[b][k2].child = "Err"

\* the error is what is left of the command: main returns it (Single arm)
\* or the closure panics with it (Parallel arm), and it is printed
FailureIndicated(b, k) == pc[b][k] = "failed"

\* C12 (as claimed): the label of a dispatched command is printed before
\* its process is started; when its handling is over, a command whose
\* process started and was waited on without error has exactly one body and
\* no failure indication, and one that failed to start or to be waited on
\* has the failure indication and no body.
C12_LabelThenOutcome ==
    \A b \in Batches : \A k \in Group(b) :
        /\ result[b][k].child # "None" => Cardinality(Lines(b, k, "label")) = 1
        /\ pc[b][k] = "done"
           => /\ Cardinality(Lines(b, k, "body")) = 1
              /\ result[b][k].child = "Ok"
        /\ pc[b][k] = "failed"
           => Lines(b, k, "body") = {}
        /\ (pc[b][k] \in {"done", "failed"} /\ result[b][k].child = "Err")
           => FailureIndicated(b, k)

\* worker w sits in wait_with_output on a process that has not exited
BlockedOnProcess(w) ==
    /\ Busy(w)
    /\ pc[i][Cur(w)] = "ran"
    /\ result[i][Cur(w)].wait
    /\ result[i][Cur(w)].child = "Ok"
    /\ proc[i][Cur(w)].state = "running"

\* command k of the running group is not held behind a thread that waits
\* for a process: the thread folding its leaf is not blocked, and a job
\* that holds it can be taken by a thread that is not blocked
NotHeldBack(k) ==
    /\ \A w \in Workers :
         (Busy(w) /\ worker[w].lo < k /\ k <= worker[w].hi) => ~BlockedOnProcess(w)
    /\ (\E j \in pending : j.lo < k /\ k <= j.hi)
       => \E w \in Workers : ~BlockedOnProcess(w)

\* C13 (as claimed): in a Parallel group of any size, on a pool of any
\* size, a command whose process is not started yet never has to wait for
\* the awaited process of a sibling to exit.
C13_NoSiblingBlocks ==
    mainPc = "parallel"
    => \A k \in Group(i) : pc[i][k] \in {"idle", "labelled"} => NotHeldBack(k)

\* C13 (amended): the same for groups that are not larger than the pool.
C13_NoSiblingBlocksWithinPool ==
    (mainPc = "parallel" /\ Len(commands[i].cmds) <= numThreads)
    => \A k \in Group(i) : pc[i][k] \in {"idle", "labelled"} => NotHeldBack(k)

\* C13 witness: in a group that fits the pool one thread waits for its
\* process while a sibling is not started yet
C13_Witness ==
    /\ mainPc = "parallel"
    /\ Len(commands[i].cmds) >= 2
    /\ Len(commands[i].cmds) <= numThreads
    /\ \E w \in Workers : BlockedOnProcess(w)
    /\ \E k \in Group(i) : pc[i][k] \in {"idle", "labelled"}

(* ------------------------------ scheduling ---------------------------- *)
\* the step of a report in which wait_with_output itself returns an error
WaitError(b, k) ==
    /\ result[b][k].wait
    /\ result[b][k].child = "Ok"
    /\ pc'[b][k] = "failed"

\* The main thread and every pool thread are OS threads that keep running
\* their code; an awaited process that was started exits in the end (the
\* premise of C15).  Nothing is assumed of a spawn_only process, and an
\* error of wait_with_output is possible but never bound to happen.
Fairness ==
    /\ WF_vars(SingleLabel)
    /\ WF_vars(SingleRun)
    /\ WF_vars(SingleReport /\ ~WaitError(i, 1))
    /\ WF_vars(ParallelStart)
    /\ WF_vars(ParallelJoin)
    /\ WF_vars(Finish)
    /\ \A w \in 1..MaxThreads :
         /\ WF_vars(w \in Workers /\ WorkerTake(w))
         /\ WF_vars(w \in Workers /\ TaskLabel(w))
         /\ WF_vars(w \in Workers /\ TaskRun(w))
         /\ WF_vars(w \in Workers /\ TaskReport(w) /\ ~WaitError(i, Cur(w)))
    /\ \A b \in 1..MaxBatches : \A k \in 1..MaxGroup :
         WF_vars(/\ b \in 1..Len(commands)
                 /\ k \in 1..Len(commands[b].cmds)
                 /\ (IF commands[b].cmds[k].kind = "Command"
                     THEN TRUE
                     ELSE ~commands[b].cmds[k].spawn_only)
                 /\ ProcExit(b, k))

FairSpec == Init /\ [][Next]_vars /\ Fairness

\* C15: when every awaited process that is started exits in the end, the
\* run terminates, whether or not the spawn_only processes ever exit.
C15_Terminates == <>(mainPc = "done")

\* C15 witness: the run has gone through a second batch and returned Ok
\* while a spawn_only process of the first batch is still running
C15_Witness ==
    /\ mainPc = "done"
    /\ exit = "ok"
    /\ Len(commands) = 2
    /\ Len(commands[2].cmds) >= 1
    /\ \E k \in Group(1) : SpawnOnly(Cmd(1, k)) /\ proc[1][k].state = "running"
    /\ \E k \in Group(2) : Awaited(Cmd(2, k)) /\ proc[2][k].state = "exited"

(* ------------------------- working directories ------------------------ *)
\* configurations in which working_directory is given or left out
InitDirs == InitWith(Configs(1, MaxBatches, DirCmds, {"None", "Some"}))

SpecDirs == InitDirs /\ [][Next]_vars

\* C16 (as claimed): the dispatch of a DirectExecution whose
\* working_directory is given is never aborted inside run: if its handling
\* fails, run had returned a result (the failure is the one of spawn or of
\* the wait), whatever the state of the current directory.
C16_ExplicitDirIgnoresCwd ==
    \A b \in Batches : \A k \in Group(b) :
        (Cmd(b, k).kind = "Execution" /\ Cmd(b, k).working_directory = "Some")
        => ~(pc[b][k] = "failed" /\ result[b][k].child = "None")

====
